---- MODULE Spec2Model ----
(***************************************************************************)
(* Model of snipren: the two filename matchers of src/lib.rs               *)
(* (matches_extension_change, matches_expansion) and the resolver          *)
(* rename_file of src/bin/rn.rs.                                           *)
(*                                                                         *)
(* A Rust &str is modelled as what it is in memory: a sequence of UTF-8    *)
(* bytes.  matches_extension_change works on the bytes (rfind, slicing by  *)
(* byte offset, ==); matches_expansion first decodes the bytes into        *)
(* Unicode scalars (chars().collect()) and works on those.                 *)
(*                                                                         *)
(* Specifications:                                                         *)
(*   SpecMatch  one call of a matcher on a pair of strings drawn from all  *)
(*              strings of at most MaxLen scalars; matches_expansion is    *)
(*              stepped loop iteration by loop iteration.                  *)
(*   Spec       one run of rename_file against a directory of at most      *)
(*              MaxEntries entries.                                        *)
(***************************************************************************)
EXTENDS Integers, Sequences, FiniteSets, TLC

VARIABLES
    \* ---- one call of a matcher (lib.rs) ----
    old,        \* first argument, UTF-8 bytes
    new,        \* second argument, UTF-8 bytes
    fn,         \* which function was called: "none", "exp", "ext"
    mpc,        \* position in the call: "call", "fwd", "bwd", "done"
    i1, i2,     \* forward cursors of matches_expansion
    j1, j2,     \* backward cursors of matches_expansion
    ret,        \* the returned bool (meaningful when mpc = "done")
    \* ---- one run of rename_file (bin/rn.rs) ----
    new_name,   \* the argument: the target, UTF-8 bytes
    force,      \* the --force flag
    fs,         \* the directory: name -> NoEntry or [kind, id]
    fs0,        \* the directory when the run started (history)
    pc,         \* position in rename_file
    entries,    \* the names read_dir still has to yield
    candidates, \* Vec<String> of matching file names
    scanned,    \* history: read_dir has been called
    renames,    \* history: the (source, destination) pairs handed to fs::rename
    exists_failed, \* history: the target was there and the stat behind
                \* target_path.exists() failed
    unread,     \* history: the regular files whose stat behind path.is_file()
                \* failed
    entry_failed, \* history: read_dir yielded an Err for an entry
    result      \* the returned Result: [kind, names]

mvars == <<old, new, fn, mpc, i1, i2, j1, j2, ret>>
rvars == <<new_name, force, fs, fs0, pc, entries, candidates, scanned, renames,
          exists_failed, unread, entry_failed, result>>
vars == <<old, new, fn, mpc, i1, i2, j1, j2, ret,
          new_name, force, fs, fs0, pc, entries, candidates, scanned, renames,
          exists_failed, unread, entry_failed, result>>

(***************************************************************************)
(* Bounds                                                                  *)
(***************************************************************************)
\* longest string (in scalars) handed to a matcher in SpecMatch
MaxLen == 4
\* most entries in the directory rename_file runs against
MaxEntries == 3

(***************************************************************************)
(* Strings: Unicode scalars and their UTF-8 encoding                       *)
(***************************************************************************)
\* the separator dot '.', U+002E
Dot == 46

\* the scalars strings are built from: 'a' (U+0061), '.' (U+002E) and
\* the two-byte 'e-acute' (U+00E9)
Alphabet == {97, Dot, 233}

\* the UTF-8 encoding of one scalar: one to four bytes
Utf8Char(c) ==
    IF c < 128 THEN <<c>>
    ELSE IF c < 2048 THEN <<192 + (c \div 64), 128 + (c % 64)>>
    ELSE IF c < 65536 THEN
        <<224 + (c \div 4096), 128 + ((c \div 64) % 64), 128 + (c % 64)>>
    ELSE <<240 + (c \div 262144), 128 + ((c \div 4096) % 64),
           128 + ((c \div 64) % 64), 128 + (c % 64)>>

RECURSIVE Utf8(_)
\* the bytes of the &str whose scalars are s
Utf8(s) == IF s = <<>> THEN <<>> ELSE Utf8Char(Head(s)) \o Utf8(Tail(s))

RECURSIVE Chars(_)
\* str::chars().collect::<Vec<char>>(): decode UTF-8 bytes into scalars
Chars(b) ==
    IF b = <<>> THEN <<>>
    ELSE IF b[1] < 128 THEN
        <<b[1]>> \o Chars(SubSeq(b, 2, Len(b)))
    ELSE IF b[1] < 224 THEN
        <<(b[1] - 192) * 64 + (b[2] - 128)>> \o Chars(SubSeq(b, 3, Len(b)))
    ELSE IF b[1] < 240 THEN
        <<(b[1] - 224) * 4096 + (b[2] - 128) * 64 + (b[3] - 128)>>
            \o Chars(SubSeq(b, 4, Len(b)))
    ELSE <<(b[1] - 240) * 262144 + (b[2] - 128) * 4096
               + (b[3] - 128) * 64 + (b[4] - 128)>>
            \o Chars(SubSeq(b, 5, Len(b)))

\* Option<T>
None == <<>>
Some(x) == <<x>>
Unwrap(o) == o[1]

\* the number of bytes the lead byte b announces, 0 when b cannot lead
Utf8Width(b) ==
    IF b < 128 THEN 1
    ELSE IF b >= 194 /\ b <= 223 THEN 2
    ELSE IF b >= 224 /\ b <= 239 THEN 3
    ELSE IF b >= 240 /\ b <= 244 THEN 4
    ELSE 0

RECURSIVE ValidUtf8(_)
\* str::from_utf8(b).is_ok(): every scalar is well formed (continuation
\* bytes in 0x80..0xBF, no overlong form, no surrogate, nothing above U+10FFFF)
ValidUtf8(b) ==
    IF b = <<>> THEN TRUE
    ELSE LET w == Utf8Width(b[1])
         IN  /\ w > 0 /\ Len(b) >= w
             /\ \A k \in 2..w : b[k] >= 128 /\ b[k] <= 191
             /\ (b[1] = 224 => b[2] >= 160)
             /\ (b[1] = 237 => b[2] <= 159)
             /\ (b[1] = 240 => b[2] >= 144)
             /\ (b[1] = 244 => b[2] <= 143)
             /\ ValidUtf8(SubSeq(b, w + 1, Len(b)))

\* OsStr::to_str(): the name as a &str, None when its bytes are not UTF-8
ToStr(name) == IF ValidUtf8(name) THEN Some(name) ELSE None

\* a search that stops at the first dot
RFind_First(s) ==
    IF \E k \in 1..Len(s) : s[k] = Dot
    THEN Some((CHOOSE k \in 1..Len(s) :
                  s[k] = Dot /\ \A m \in 1..(k-1) : s[m] # Dot) - 1)
    ELSE None

\* str::rfind('.'): the 0-based byte offset of the last dot
RFind(s) ==
    IF \E k \in 1..Len(s) : s[k] = Dot
    THEN Some((CHOOSE k \in 1..Len(s) :
                  s[k] = Dot /\ \A m \in (k+1)..Len(s) : s[m] # Dot) - 1)
    ELSE None

\* &s[..n]
SliceTo(s, n) == SubSeq(s, 1, n)
\* &s[n..]
SliceFrom(s, n) == SubSeq(s, n + 1, Len(s))

(***************************************************************************)
(* matches_extension_change (lib.rs 31-63)                                 *)
(***************************************************************************)
\* only old is required to have a dot; a new without one has an empty extension
MatchesExtensionChange_NewMayLackDot(o, n) ==
    IF o = n \/ RFind(o) = None THEN FALSE
    ELSE LET od == Unwrap(RFind(o))
             nd == IF RFind(n) = None THEN Len(n) ELSE Unwrap(RFind(n))
         IN  /\ SliceTo(o, od) = SliceTo(n, nd)
             /\ SliceFrom(o, od) # SliceFrom(n, nd)

\* a split that treats a missing dot as an empty extension
MatchesExtensionChange_EmptyExt(o, n) ==
    LET od == IF RFind(o) = None THEN Len(o) ELSE Unwrap(RFind(o))
        nd == IF RFind(n) = None THEN Len(n) ELSE Unwrap(RFind(n))
    IN  /\ o # n
        /\ SliceTo(o, od) = SliceTo(n, nd)
        /\ SliceFrom(o, od) # SliceFrom(n, nd)

MatchesExtensionChange(o, n) ==
    IF o = n THEN FALSE
    ELSE LET old_dot_pos == RFind(o)
             new_dot_pos == RFind(n)
         IN  IF old_dot_pos = None \/ new_dot_pos = None THEN FALSE
             ELSE LET old_dot == Unwrap(old_dot_pos)
                      new_dot == Unwrap(new_dot_pos)
                      old_base == SliceTo(o, old_dot)
                      new_base == SliceTo(n, new_dot)
                  IN  IF old_base # new_base THEN FALSE
                      ELSE LET old_ext == SliceFrom(o, old_dot)
                               new_ext == SliceFrom(n, new_dot)
                           IN  old_ext # new_ext

(***************************************************************************)
(* matches_expansion (lib.rs 95-136)                                       *)
(***************************************************************************)
\* the length test with <= weakened to <
TooShort_Strict(old_len, new_len) == new_len < old_len

\* the length test off by one: an insertion of one character is refused
TooShort_OffByOne(old_len, new_len) == new_len <= old_len + 1

\* line 108: new must be longer than old
TooShort(old_len, new_len) == new_len <= old_len

\* line 116: the guard of the forward loop (cursors are 0-based)
FwdCond(oc, nc, a, b) == a < Len(oc) /\ b < Len(nc) /\ oc[a + 1] = nc[b + 1]

\* the backward guard without the comparison of the characters
BwdCond_NoCompare(oc, nc, a, b, c, d) == c > a /\ d > b

\* line 125: the guard of the backward loop
BwdCond(oc, nc, a, b, c, d) == c > a /\ d > b /\ oc[c] = nc[d]

\* both backward cursors started at the end of old
BwdStart_BothOld(old_len, new_len) == <<old_len, old_len>>

\* lines 122-123: where the backward cursors <<j1, j2>> start
BwdStart(old_len, new_len) == <<old_len, new_len>>

\* the acceptance test without the prefix requirement
Accept_NoPrefix(a, c) == a = c

\* line 135
Accept(a, c) == a = c /\ a > 0

RECURSIVE FwdScan(_, _, _, _)
\* lines 113-119: the cursors <<i1, i2>> after the forward loop
FwdScan(oc, nc, a, b) ==
    IF FwdCond(oc, nc, a, b) THEN FwdScan(oc, nc, a + 1, b + 1) ELSE <<a, b>>

RECURSIVE BwdScan(_, _, _, _, _, _)
\* lines 122-128: the cursors <<j1, j2>> after the backward loop
BwdScan(oc, nc, a, b, c, d) ==
    IF BwdCond(oc, nc, a, b, c, d) THEN BwdScan(oc, nc, a, b, c - 1, d - 1) ELSE <<c, d>>

\* the whole function, as the resolver calls it
MatchesExpansion(o, n) ==
    LET old_chars == Chars(o)
        new_chars == Chars(n)
        old_len == Len(old_chars)
        new_len == Len(new_chars)
    IN  IF TooShort(old_len, new_len) THEN FALSE
        ELSE LET f == FwdScan(old_chars, new_chars, 0, 0)
                 s == BwdStart(old_len, new_len)
                 b == BwdScan(old_chars, new_chars, f[1], f[2], s[1], s[2])
             IN  Accept(f[1], b[1])

(***************************************************************************)
(* One call of a matcher, matches_expansion stepped through its loops      *)
(***************************************************************************)
\* every string of at most n scalars over the alphabet, as UTF-8 bytes
Strings(n) == {Utf8(s) : s \in UNION {[1..k -> Alphabet] : k \in 0..n}}

\* the matcher variables while no matcher is being called
MatchIdle ==
    /\ old = <<>> /\ new = <<>>
    /\ fn = "none" /\ mpc = "idle"
    /\ i1 = 0 /\ i2 = 0 /\ j1 = 0 /\ j2 = 0
    /\ ret = FALSE

\* lines 102-110: decode, compare the lengths, return false
ExpReject ==
    /\ mpc = "call"
    /\ TooShort(Len(Chars(old)), Len(Chars(new)))
    /\ fn' = "exp"
    /\ ret' = FALSE
    /\ mpc' = "done"
    /\ UNCHANGED <<old, new, i1, i2, j1, j2>>

\* lines 102-114: decode, compare the lengths, enter the forward loop
ExpEnter ==
    /\ mpc = "call"
    /\ ~TooShort(Len(Chars(old)), Len(Chars(new)))
    /\ fn' = "exp"
    /\ i1' = 0 /\ i2' = 0
    /\ mpc' = "fwd"
    /\ UNCHANGED <<old, new, j1, j2, ret>>

\* lines 116-119: one iteration of the forward loop
FwdStep ==
    /\ mpc = "fwd"
    /\ FwdCond(Chars(old), Chars(new), i1, i2)
    /\ i1' = i1 + 1 /\ i2' = i2 + 1
    /\ UNCHANGED <<old, new, fn, mpc, j1, j2, ret>>

\* lines 116, 122-123: the forward loop ends, the backward cursors start
FwdExit ==
    /\ mpc = "fwd"
    /\ ~FwdCond(Chars(old), Chars(new), i1, i2)
    /\ j1' = BwdStart(Len(Chars(old)), Len(Chars(new)))[1]
    /\ j2' = BwdStart(Len(Chars(old)), Len(Chars(new)))[2]
    /\ mpc' = "bwd"
    /\ UNCHANGED <<old, new, fn, i1, i2, ret>>

\* lines 125-128: one iteration of the backward loop
BwdStep ==
    /\ mpc = "bwd"
    /\ BwdCond(Chars(old), Chars(new), i1, i2, j1, j2)
    /\ j1' = j1 - 1 /\ j2' = j2 - 1
    /\ UNCHANGED <<old, new, fn, mpc, i1, i2, ret>>

\* lines 125, 135: the backward loop ends, the verdict is returned
BwdExit ==
    /\ mpc = "bwd"
    /\ ~BwdCond(Chars(old), Chars(new), i1, i2, j1, j2)
    /\ ret' = Accept(i1, j1)
    /\ mpc' = "done"
    /\ UNCHANGED <<old, new, fn, i1, i2, j1, j2>>

\* lines 31-63: matches_extension_change has no loop, it is one step
ExtCall ==
    /\ mpc = "call"
    /\ fn' = "ext"
    /\ ret' = MatchesExtensionChange(old, new)
    /\ mpc' = "done"
    /\ UNCHANGED <<old, new, i1, i2, j1, j2>>

\* the strings a call is made on
InitMatch ==
    /\ old \in Strings(MaxLen)
    /\ new \in Strings(MaxLen)
    /\ fn = "none" /\ mpc = "call"
    /\ i1 = 0 /\ i2 = 0 /\ j1 = 0 /\ j2 = 0
    /\ ret = FALSE

(***************************************************************************)
(* rename_file (bin/rn.rs 29-123)                                          *)
(*                                                                         *)
(* The target is a bare file name (no '/'), so the directory searched is   *)
(* the current directory.  The directory maps each name to NoEntry or to   *)
(* an entry [kind, id]: kind is "file" or "dir", id identifies the content *)
(* (the name the entry had when the run started).  Failures of the         *)
(* operating system (current_dir, canonicalize, the stat behind exists()   *)
(* and is_file(), read_dir, reading an entry, rename) are choices of the   *)
(* environment.                                                            *)
(***************************************************************************)
\* the file names of the modelled directory:
\*   a   aa   a.a   a.e'   a.aa   .a   <de>a   <party>
\* (e' is the two-byte U+00E9, <de> the three-byte katakana U+30C7, <party>
\* the four-byte U+1F389)
FileNames ==
    {Utf8(s) : s \in {<<97>>, <<97, 97>>, <<97, Dot, 97>>, <<97, Dot, 233>>,
                      <<97, Dot, 97, 97>>, <<Dot, 97>>, <<12487, 97>>, <<127881>>}}

\* the names an entry of the directory can have: the names above, and the
\* bytes 'a' 0xFF, a name Linux accepts and that is not UTF-8
DirNames == FileNames \cup {<<97, 255>>}

\* the targets a run is given (a &str): every file name, and ".." which has
\* no file name
Targets == FileNames \cup {Utf8(<<Dot, Dot>>)}

NoEntry == [kind |-> "none", id |-> <<>>]

\* Path::file_name().and_then(to_str) of a path without '/': the last normal
\* component, None for "", "." and ".."
FileName(path) ==
    IF path \in {<<>>, <<Dot>>, <<Dot, Dot>>} THEN None ELSE Some(path)

\* line 32: new_filename
NewFilename == Unwrap(FileName(new_name))

\* Path::exists(): fs::metadata(path).is_ok().  stat_ok is whether the stat
\* succeeds for an entry that is there (it can fail with EACCES, EIO, ...):
\* when it fails the answer is false, whatever is at the path
Exists(f, name, stat_ok) == stat_ok /\ f[name].kind # "none"

\* Path::is_file(): fs::metadata(path).map(|m| m.is_file()).unwrap_or(false)
IsFile(f, name, stat_ok) == stat_ok /\ f[name].kind = "file"

\* line 60
CollisionRefused(exists, forced) == exists /\ ~forced

\* lines 93-96: the four-way OR
IsCandidate(filename, new_filename) ==
    \/ MatchesExpansion(filename, new_filename)
    \/ MatchesExpansion(new_filename, filename)
    \/ MatchesExtensionChange(filename, new_filename)
    \/ MatchesExtensionChange(new_filename, filename)

\* lines 78-99: the entry is pushed onto candidates
Keeps(f, filename, new_filename, stat_ok) ==
    /\ IsFile(f, filename, stat_ok)
    /\ filename # new_filename
    /\ IsCandidate(filename, new_filename)

\* a decision that takes the first of several candidates
DecideArm_First(n) == IF n = 0 THEN "NoMatch" ELSE "Rename"

\* lines 103-121: the arm of the match on candidates.len()
DecideArm(n) == IF n = 0 THEN "NoMatch" ELSE IF n = 1 THEN "Rename" ELSE "Ambiguous"

\* fs::rename of a regular file fails when the destination is a directory
RenameRejected(f, src, dst) == f[dst].kind = "dir"

\* the directory after a successful fs::rename(src, dst)
Renamed(f, src, dst) == [f EXCEPT ![dst] = f[src], ![src] = NoEntry]

\* the ways to return (the Err and Ok arms)
Return(kind, names) ==
    /\ result' = [kind |-> kind, names |-> names]
    /\ pc' = "done"

\* the resolver variables while rename_file is not running
ResolverIdle ==
    /\ new_name = <<>> /\ force = FALSE
    /\ fs = [n \in DirNames |-> NoEntry] /\ fs0 = fs
    /\ pc = "idle"
    /\ entries = {} /\ candidates = <<>>
    /\ scanned = FALSE /\ renames = <<>>
    /\ exists_failed = FALSE /\ unread = {}
    /\ entry_failed = FALSE
    /\ result = [kind |-> "none", names |-> <<>>]

\* a target, a flag and a directory of at most MaxEntries entries
InitResolver ==
    /\ new_name \in Targets
    /\ force \in BOOLEAN
    /\ \E D \in SUBSET DirNames :
         /\ Cardinality(D) <= MaxEntries
         /\ \E k \in [D -> {"file", "dir"}] :
              fs = [n \in DirNames |->
                      IF n \in D THEN [kind |-> k[n], id |-> n] ELSE NoEntry]
    /\ fs0 = fs
    /\ pc = "start"
    /\ entries = {} /\ candidates = <<>>
    /\ scanned = FALSE /\ renames = <<>>
    /\ exists_failed = FALSE /\ unread = {}
    /\ entry_failed = FALSE
    /\ result = [kind |-> "none", names |-> <<>>]

\* lines 31-35: the target has no file name
ResolveInvalid ==
    /\ pc = "start"
    /\ FileName(new_name) = None
    /\ Return("InvalidPath", <<>>)
    /\ UNCHANGED <<new_name, force, fs, fs0, entries, candidates, scanned, renames,
                 exists_failed, unread, entry_failed>>

\* lines 38-56: current_dir or canonicalize fails
ResolveDirFail ==
    /\ pc = "start"
    /\ FileName(new_name) # None
    /\ Return("DirectoryUnreadable", <<>>)
    /\ UNCHANGED <<new_name, force, fs, fs0, entries, candidates, scanned, renames,
                 exists_failed, unread, entry_failed>>

\* lines 31-56: the file name and the directory are resolved
ResolveOk ==
    /\ pc = "start"
    /\ FileName(new_name) # None
    /\ pc' = "check"
    /\ UNCHANGED <<new_name, force, fs, fs0, entries, candidates, scanned, renames, result,
                 exists_failed, unread, entry_failed>>

\* lines 59-65: the target exists and force is not set
CheckRefuse ==
    /\ pc = "check"
    /\ \E stat_ok \in BOOLEAN :
         /\ CollisionRefused(Exists(fs, NewFilename, stat_ok), force)
         /\ exists_failed' = (~stat_ok /\ fs[NewFilename] # NoEntry)
    /\ Return("TargetExists", <<>>)
    /\ UNCHANGED <<new_name, force, fs, fs0, entries, candidates, scanned, renames,
                 unread, entry_failed>>

\* lines 59-65: no collision, or force
CheckPass ==
    /\ pc = "check"
    /\ \E stat_ok \in BOOLEAN :
         /\ ~CollisionRefused(Exists(fs, NewFilename, stat_ok), force)
         /\ exists_failed' = (~stat_ok /\ fs[NewFilename] # NoEntry)
    /\ pc' = "readdir"
    /\ UNCHANGED <<new_name, force, fs, fs0, entries, candidates, scanned, renames, result,
                 unread, entry_failed>>

\* lines 68-69: read_dir fails
ReadDirFail ==
    /\ pc = "readdir"
    /\ scanned' = TRUE
    /\ Return("DirectoryUnreadable", <<>>)
    /\ UNCHANGED <<new_name, force, fs, fs0, entries, candidates, renames,
                 exists_failed, unread, entry_failed>>

\* lines 68-71: read_dir yields the entries of the directory, candidates is empty
ReadDirOk ==
    /\ pc = "readdir"
    /\ scanned' = TRUE
    /\ entries' = {n \in DirNames : fs[n] # NoEntry}
    /\ candidates' = <<>>
    /\ pc' = "loop"
    /\ UNCHANGED <<new_name, force, fs, fs0, renames, result,
                 exists_failed, unread, entry_failed>>

\* lines 73-74: a read of the directory stream fails (any read, the one
\* after the last entry included): the error is returned
EntryFail ==
    /\ pc = "loop"
    /\ entry_failed' = TRUE
    /\ Return("DirectoryUnreadable", <<>>)
    /\ UNCHANGED <<new_name, force, fs, fs0, entries, candidates, scanned, renames,
                 exists_failed, unread>>

\* lines 73-85: the entry read_dir yields next is a regular file whose name
\* is not UTF-8: Err("Invalid filename") is returned
EntryInvalid ==
    /\ pc = "loop"
    /\ \E e \in entries, stat_ok \in BOOLEAN :
         /\ IsFile(fs, e, stat_ok)
         /\ ToStr(e) = None
         /\ entries' = entries \ {e}
    /\ Return("InvalidFilename", <<>>)
    /\ UNCHANGED <<new_name, force, fs, fs0, candidates, scanned, renames,
                 exists_failed, unread, entry_failed>>

\* lines 73-100: one iteration of the loop, on the entry read_dir yields next
\* (read_dir yields the entries in no particular order)
EntryStep ==
    /\ pc = "loop"
    /\ \E e \in entries, stat_ok \in BOOLEAN :
         /\ ~IsFile(fs, e, stat_ok) \/ ToStr(e) # None
         /\ entries' = entries \ {e}
         /\ candidates' = IF Keeps(fs, e, NewFilename, stat_ok)
                          THEN Append(candidates, e) ELSE candidates
         /\ unread' = IF ~stat_ok /\ fs[e].kind = "file"
                      THEN unread \cup {e} ELSE unread
    /\ UNCHANGED <<new_name, force, fs, fs0, pc, scanned, renames, result,
                 exists_failed, entry_failed>>

\* line 73, 103: the loop ends
LoopEnd ==
    /\ pc = "loop"
    /\ entries = {}
    /\ pc' = "decide"
    /\ UNCHANGED <<new_name, force, fs, fs0, entries, candidates, scanned, renames, result,
                 exists_failed, unread, entry_failed>>

\* line 104
DecideNoMatch ==
    /\ pc = "decide"
    /\ DecideArm(Len(candidates)) = "NoMatch"
    /\ Return("NoMatch", <<>>)
    /\ UNCHANGED <<new_name, force, fs, fs0, entries, candidates, scanned, renames,
                 exists_failed, unread, entry_failed>>

\* lines 105-113: fs::rename succeeds
DecideRename ==
    /\ pc = "decide"
    /\ DecideArm(Len(candidates)) = "Rename"
    /\ ~RenameRejected(fs, candidates[1], NewFilename)
    /\ renames' = Append(renames, <<candidates[1], NewFilename>>)
    /\ fs' = Renamed(fs, candidates[1], NewFilename)
    /\ Return("Ok", <<candidates[1]>>)
    /\ UNCHANGED <<new_name, force, fs0, entries, candidates, scanned,
                 exists_failed, unread, entry_failed>>

\* lines 105-110: fs::rename fails (the destination is a directory, or the
\* operating system refuses for a reason of its own)
DecideRenameFail ==
    /\ pc = "decide"
    /\ DecideArm(Len(candidates)) = "Rename"
    /\ renames' = Append(renames, <<candidates[1], NewFilename>>)
    /\ Return("RenameFailed", <<>>)
    /\ UNCHANGED <<new_name, force, fs, fs0, entries, candidates, scanned,
                 exists_failed, unread, entry_failed>>

\* lines 114-121: every candidate is listed
DecideAmbiguous ==
    /\ pc = "decide"
    /\ DecideArm(Len(candidates)) = "Ambiguous"
    /\ Return("Ambiguous", candidates)
    /\ UNCHANGED <<new_name, force, fs, fs0, entries, candidates, scanned, renames,
                 exists_failed, unread, entry_failed>>

(***************************************************************************)
(* Specifications                                                          *)
(***************************************************************************)
Init == InitResolver /\ MatchIdle

Next ==
    \/ (ResolveInvalid /\ UNCHANGED mvars)
    \/ (ResolveDirFail /\ UNCHANGED mvars)
    \/ (ResolveOk /\ UNCHANGED mvars)
    \/ (CheckRefuse /\ UNCHANGED mvars)
    \/ (CheckPass /\ UNCHANGED mvars)
    \/ (ReadDirFail /\ UNCHANGED mvars)
    \/ (ReadDirOk /\ UNCHANGED mvars)
    \/ (EntryFail /\ UNCHANGED mvars)
    \/ (EntryInvalid /\ UNCHANGED mvars)
    \/ (EntryStep /\ UNCHANGED mvars)
    \/ (LoopEnd /\ UNCHANGED mvars)
    \/ (DecideNoMatch /\ UNCHANGED mvars)
    \/ (DecideRename /\ UNCHANGED mvars)
    \/ (DecideRenameFail /\ UNCHANGED mvars)
    \/ (DecideAmbiguous /\ UNCHANGED mvars)

Spec == Init /\ [][Next]_vars

InitM == InitMatch /\ ResolverIdle

NextM ==
    \/ (ExpReject /\ UNCHANGED rvars)
    \/ (ExpEnter /\ UNCHANGED rvars)
    \/ (FwdStep /\ UNCHANGED rvars)
    \/ (FwdExit /\ UNCHANGED rvars)
    \/ (BwdStep /\ UNCHANGED rvars)
    \/ (BwdExit /\ UNCHANGED rvars)
    \/ (ExtCall /\ UNCHANGED rvars)

SpecMatch == InitM /\ [][NextM]_vars

\* the call runs on: the function is straight-line sequential code, nothing
\* can keep an enabled step of it from being taken
SpecMatchLive == InitM /\ [][NextM]_vars /\ WF_vars(NextM)

\* the stepped loops and the function the resolver calls give the same verdict
StepsAgree ==
    (mpc = "done" /\ fn = "exp") => (ret = MatchesExpansion(old, new))

(***************************************************************************)
(* Vocabulary of the properties                                            *)
(***************************************************************************)
\* the elements of a sequence
Range(q) == {q[k] : k \in 1..Len(q)}

\* the combined predicate of a name against the target
Combined(e, t) ==
    \/ MatchesExpansion(e, t) \/ MatchesExpansion(t, e)
    \/ MatchesExtensionChange(e, t) \/ MatchesExtensionChange(t, e)

\* the regular files of the directory (as the run found it) that qualify
\* against the target (the probes take &str: only a UTF-8 name can qualify)
Qualifying ==
    {e \in FileNames : fs0[e].kind = "file" /\ e # new_name /\ Combined(e, new_name)}

\* the run returned from the Decide step (lines 103-122)
Decided == pc = "done" /\ result.kind \in {"Ok", "RenameFailed", "NoMatch", "Ambiguous"}

\* the run returned an error
Failed == pc = "done" /\ result.kind # "Ok"

\* the result lists exactly the names of S, each once
ListsExactly(S) == Range(result.names) = S /\ Len(result.names) = Cardinality(S)

(***************************************************************************)
(* C1                                                                      *)
(***************************************************************************)
\* C1: whenever two or more regular files qualify against the target, the
\* run never renames anything and a finished run has returned an error; a run
\* that reaches the Decide step ends in Ambiguous and its error lists exactly
\* the qualifying names.  (The listing is asked of the runs that reach the
\* decision only: the refusals before it, InvalidPath, DirectoryUnreadable,
\* TargetExists, name no file.)
C1_AmbiguityNeverRenames ==
    (Cardinality(Qualifying) >= 2) =>
        /\ renames = <<>> /\ fs = fs0
        /\ (pc = "done" => Failed)
        /\ (Decided => result.kind = "Ambiguous" /\ ListsExactly(Qualifying))

\* C1, the runs in which every is_file() was answered: there the statement
\* above holds.
C1_WhenAllRead ==
    (unread = {}) => C1_AmbiguityNeverRenames

(***************************************************************************)
(* C2                                                                      *)
(***************************************************************************)
\* the single qualifying file
TheOne == CHOOSE e \in Qualifying : TRUE

\* C2: when exactly one regular file qualifies, a run that reached the Decide
\* step has called the filesystem rename exactly once, with that file as the
\* source and the target as the destination; if the call succeeded the file
\* is at the target and its old name is gone; every other entry is unchanged.
C2_RenamesTheOne ==
    (Decided /\ Cardinality(Qualifying) = 1) =>
        /\ renames = << <<TheOne, new_name>> >>
        /\ \A n \in DirNames \ {TheOne, new_name} : fs[n] = fs0[n]
        /\ result.kind \in {"Ok", "RenameFailed"}
        /\ (result.kind = "Ok" =>
               fs[new_name] = fs0[TheOne] /\ fs[TheOne] = NoEntry)
        /\ (result.kind = "RenameFailed" => fs = fs0)

\* C2, the runs in which every is_file() was answered: there the statement
\* above holds.
C2_WhenAllRead ==
    (unread = {}) => C2_RenamesTheOne

(***************************************************************************)
(* C3                                                                      *)
(***************************************************************************)
\* C3: if an entry exists at the target path and force is not set, the run
\* never calls read_dir and never calls rename, and once the path is resolved
\* it ends in TargetExists (or in DirectoryUnreadable, when the directory
\* could not be resolved).
C3_CollisionBeforeScan ==
    (FileName(new_name) # None /\ fs0[new_name].kind # "none" /\ ~force) =>
        /\ scanned = FALSE /\ renames = <<>> /\ fs = fs0
        /\ pc \in {"start", "check", "done"}
        /\ (pc = "done" /\ result.kind # "DirectoryUnreadable"
               => result.kind = "TargetExists")

\* C3, the runs in which the stat behind exists() succeeded: there the
\* statement above holds.
C3_WhenStatAnswered ==
    (~exists_failed) => C3_CollisionBeforeScan

(***************************************************************************)
(* C4                                                                      *)
(***************************************************************************)
\* C4: rename is called at most once, and only after the scan has read every
\* entry and found exactly one candidate; a run that ends in InvalidPath,
\* DirectoryUnreadable, TargetExists, NoMatch or Ambiguous has called no
\* rename and left the directory as it was.
C4_AtMostOneRename ==
    /\ Len(renames) <= 1
    /\ (renames # <<>> =>
           /\ scanned /\ entries = {} /\ pc = "done"
           /\ Len(candidates) = 1
           /\ renames[1][1] = candidates[1])
    /\ (pc = "done" /\ result.kind \in {"InvalidPath", "DirectoryUnreadable",
                                         "TargetExists", "NoMatch", "Ambiguous"}
           => renames = <<>> /\ fs = fs0)
    /\ (fs # fs0 => Len(renames) = 1 /\ result.kind = "Ok")

\* a run that renamed, after stats that failed: the target was there and
\* force was not set, yet exists() answered false, and a regular file that
\* qualifies was passed over by is_file()
C4_Witness ==
    /\ pc = "done" /\ result.kind = "Ok" /\ Len(renames) = 1 /\ fs # fs0
    /\ exists_failed /\ ~force /\ fs0[new_name].kind = "file"
    /\ \E e \in unread : e \in Qualifying

(***************************************************************************)
(* C10                                                                     *)
(***************************************************************************)
\* C10: when the scan has read every entry, a name is in candidates exactly
\* when it is a regular file, is not the target name and satisfies one of
\* the four probes; and the source of a rename is never the target name.
C10_CandidateSet ==
    /\ (pc = "decide" =>
          \A e \in DirNames :
             (e \in Range(candidates)) <=>
                 /\ fs[e].kind = "file"
                 /\ e # NewFilename
                 /\ Combined(e, NewFilename))
    /\ \A k \in 1..Len(renames) : renames[k][1] # renames[k][2]

\* C10, the runs in which every is_file() was answered: there the statement
\* above holds.
C10_WhenAllRead ==
    (unread = {}) => C10_CandidateSet

(***************************************************************************)
(* Vocabulary of the matcher properties (over Unicode scalars)             *)
(***************************************************************************)
\* matches_expansion has returned
ExpDone == mpc = "done" /\ fn = "exp"

\* matches_extension_change has returned
ExtDone == mpc = "done" /\ fn = "ext"

\* the last n elements of a sequence
Suffix(q, n) == SubSeq(q, Len(q) - n + 1, Len(q))

\* nc is oc with one or more scalars put in front and nothing else changed
IsPrepend(oc, nc) == Len(nc) > Len(oc) /\ Suffix(nc, Len(oc)) = oc

\* oc = P ++ S and nc = P ++ X ++ S with P and X not empty
HasSplit(oc, nc) ==
    /\ Len(nc) > Len(oc)
    /\ \E k \in 1..Len(oc) :
          /\ SubSeq(nc, 1, k) = SubSeq(oc, 1, k)
          /\ Suffix(nc, Len(oc) - k) = Suffix(oc, Len(oc) - k)

\* the string has a dot
HasDot(q) == \E k \in 1..Len(q) : q[k] = Dot

\* the position of the last dot of a string that has one
LastDot(q) == CHOOSE k \in 1..Len(q) : q[k] = Dot /\ \A m \in (k + 1)..Len(q) : q[m] # Dot

\* what precedes the last dot
BeforeLastDot(q) == SubSeq(q, 1, LastDot(q) - 1)

\* the last dot and what follows it
FromLastDot(q) == SubSeq(q, LastDot(q), Len(q))

(***************************************************************************)
(* C5                                                                      *)
(***************************************************************************)
\* C5 as stated: if new is old with one or more characters put in front,
\* matches_expansion(old, new) is false.
C5_AsStated ==
    (ExpDone /\ IsPrepend(Chars(old), Chars(new))) => (ret = FALSE)

\* C5 amended: if new is old with one or more characters put in front, then
\* matches_expansion(old, new) is false exactly when old is empty or new
\* begins with another character than old; when both begin with the same
\* character (a -> aa, ab -> abab) it is true.
C5_PrependRejected ==
    (ExpDone /\ IsPrepend(Chars(old), Chars(new))) =>
        (ret = FALSE <=> (Chars(old) = <<>> \/ Chars(new)[1] # Chars(old)[1]))

\* a rejected prepend to a name of two or more characters
C5_Witness ==
    /\ ExpDone /\ IsPrepend(Chars(old), Chars(new))
    /\ Len(Chars(old)) >= 2
    /\ Chars(new)[1] # Chars(old)[1]
    /\ ret = FALSE

(***************************************************************************)
(* C6                                                                      *)
(***************************************************************************)
\* C6: matches_expansion(old, new) is true exactly when old = P ++ S and
\* new = P ++ X ++ S with P and X not empty; and when it is true the forward
\* cursor has met the backward cursor in old.
C6_AcceptsIffSplit ==
    ExpDone =>
        /\ ret <=> HasSplit(Chars(old), Chars(new))
        /\ ret => (i1 = j1 /\ i1 = i2 /\ j2 - j1 = Len(Chars(new)) - Len(Chars(old)))

\* an accepted pair with the insertion in the middle of old
C6_Witness ==
    /\ ExpDone /\ ret
    /\ 0 < i1 /\ i1 < Len(Chars(old))

(***************************************************************************)
(* C7                                                                      *)
(***************************************************************************)
\* C7: matches_expansion(old, new) true implies that new has more Unicode
\* scalars than old; it is false for identical names and for a new that is
\* not longer than old.
C7_StrictlyLonger ==
    ExpDone =>
        /\ ret => Len(Chars(new)) > Len(Chars(old))
        /\ (old = new \/ Len(Chars(new)) <= Len(Chars(old))) => ret = FALSE

\* an accepted pair in which old has as many bytes as new has characters
C7_Witness ==
    /\ ExpDone /\ ret
    /\ Len(old) >= Len(Chars(new))

(***************************************************************************)
(* C8                                                                      *)
(***************************************************************************)
\* C8: if matches_extension_change(old, new) is true, both names have a dot,
\* what precedes the last dot of old is what precedes the last dot of new,
\* and what starts at the last dot of old differs from what starts at the
\* last dot of new.
C8_SameBaseOtherExt ==
    (ExtDone /\ ret) =>
        /\ HasDot(Chars(old)) /\ HasDot(Chars(new))
        /\ BeforeLastDot(Chars(old)) = BeforeLastDot(Chars(new))
        /\ FromLastDot(Chars(old)) # FromLastDot(Chars(new))

\* an accepted pair whose common base itself has a dot
C8_Witness ==
    /\ ExtDone /\ ret
    /\ HasDot(BeforeLastDot(Chars(old)))

(***************************************************************************)
(* C9                                                                      *)
(***************************************************************************)
\* C9: matches_extension_change(old, new) is false whenever old has no dot,
\* new has no dot, or old = new.
C9_NeedsTwoDots ==
    (ExtDone /\ (~HasDot(Chars(old)) \/ ~HasDot(Chars(new)) \/ old = new)) =>
        (ret = FALSE)

\* a rejected pair: a name without a dot and the same name with an extension
C9_Witness ==
    /\ ExtDone /\ ret = FALSE
    /\ ~HasDot(Chars(old)) /\ HasDot(Chars(new))
    /\ old # <<>>
    /\ BeforeLastDot(Chars(new)) = Chars(old)

(***************************************************************************)
(* C11                                                                     *)
(***************************************************************************)
\* y is x followed by an extension: a dot and characters that are not dots
AddsExt(x, y) ==
    /\ Len(y) > Len(x)
    /\ SubSeq(y, 1, Len(x)) = x
    /\ y[Len(x) + 1] = Dot
    /\ \A k \in (Len(x) + 2)..Len(y) : y[k] # Dot

\* the call is on a name and the same name without its extension, in
\* either order
ExtRemovedPair ==
    AddsExt(Chars(old), Chars(new)) \/ AddsExt(Chars(new), Chars(old))

\* C11 as stated: for a name with an extension and the same name without it,
\* both matchers are false in both directions, so the filter of the resolver
\* takes neither as a candidate for the other.
C11_AsStated ==
    (mpc = "done" /\ ExtRemovedPair) =>
        /\ ret = FALSE
        /\ ~IsCandidate(old, new)

\* C11 amended: for a name X.ext and the same name X without the extension,
\* matches_extension_change is false in both directions and
\* matches_expansion(X.ext, X) is false, but matches_expansion(X, X.ext) is
\* true whenever X is not empty; so the four-way filter of the resolver does
\* take each of the two as a candidate for the other.
C11_OnlyAddingExtMatches ==
    (mpc = "done" /\ ExtRemovedPair) =>
        /\ fn = "ext" => ret = FALSE
        /\ (fn = "exp" /\ AddsExt(Chars(new), Chars(old))) => ret = FALSE
        /\ (fn = "exp" /\ AddsExt(Chars(old), Chars(new))) => (ret <=> old # <<>>)
        /\ (old # <<>> /\ new # <<>>) => (IsCandidate(old, new) /\ IsCandidate(new, old))

\* matches_expansion has accepted a name without a dot and the same name with
\* an extension of one character or more
C11_Witness ==
    /\ ExpDone /\ ret
    /\ AddsExt(Chars(old), Chars(new))
    /\ ~HasDot(Chars(old))
    /\ Len(Chars(new)) >= Len(Chars(old)) + 2

(***************************************************************************)
(* C12                                                                     *)
(***************************************************************************)
\* C12: a run in which a directory entry could not be read (read_dir yielded
\* an error, or the metadata of a regular file could not be read) has ended
\* with
\* the DirectoryUnreadable error when it ends: no decision was taken on the
\* entries that could be read, no rename was called and the directory is as
\* it was.
C12_EntryErrorAborts ==
    (pc = "done" /\ (entry_failed \/ unread # {})) =>
        /\ result.kind = "DirectoryUnreadable"
        /\ renames = <<>> /\ fs = fs0

\* C12, the error of read_dir alone: once it has yielded an error the run is
\* over with DirectoryUnreadable, nothing renamed.
C12_ReadErrorAborts ==
    entry_failed =>
        /\ pc = "done"
        /\ result.kind = "DirectoryUnreadable"
        /\ renames = <<>> /\ fs = fs0

(***************************************************************************)
(* C13                                                                     *)
(***************************************************************************)
\* the backward cursors, which in the forward loop are not declared yet and
\* are taken at the values lines 122-123 will give them
J1 == IF mpc = "fwd" THEN Len(Chars(old)) ELSE j1
J2 == IF mpc = "fwd" THEN Len(Chars(new)) ELSE j2

\* the relations of the cursors in a state of one of the two loops
CursorsInBounds ==
    (mpc \in {"fwd", "bwd"}) =>
        LET old_len == Len(Chars(old))
            new_len == Len(Chars(new))
        IN  /\ new_len > old_len
            /\ 0 <= i1 /\ i1 <= J1 /\ J1 <= old_len
            /\ i1 = i2
            /\ i2 <= J2 /\ J2 <= new_len
            /\ old_len - J1 = new_len - J2
            \* the reads of line 116 are in bounds (0-based)
            /\ (i1 < old_len /\ i2 < new_len) => (i1 \in 0..(old_len - 1) /\ i2 \in 0..(new_len - 1))
            \* the reads of line 125 are in bounds (0-based)
            /\ (mpc = "bwd" /\ j1 > i1 /\ j2 > i2) =>
                   (j1 - 1 \in 0..(old_len - 1) /\ j2 - 1 \in 0..(new_len - 1))

\* C13: in every state of the two scan loops of matches_expansion, new is
\* longer than old, 0 <= i1 <= j1 <= old_len, i1 = i2, i2 <= j2 <= new_len
\* and old_len - j1 = new_len - j2, so every index read is in bounds and the
\* backward cursors never cross the forward cursors; and every call returns.
C13_LoopCursors == []CursorsInBounds /\ <>(mpc = "done")

\* the backward loop is under way after both loops have iterated
C13_Witness ==
    /\ mpc = "bwd"
    /\ 0 < i1 /\ i1 < j1 /\ j1 < Len(Chars(old))

(***************************************************************************)
(* C14                                                                     *)
(***************************************************************************)
\* C14: matches_extension_change gives the same verdict on (a, b) and on
\* (b, a), so the two extension-change probes of the resolver always agree;
\* matches_expansion is never true on both (a, b) and (b, a).
C14_ExtSymmetricExpNot ==
    /\ ExtDone => (ret = MatchesExtensionChange(new, old))
    /\ (ExpDone /\ ret) => ~MatchesExpansion(new, old)

\* an extension change between names of different lengths, accepted
C14_Witness ==
    /\ ExtDone /\ ret
    /\ Len(Chars(old)) < Len(Chars(new))
    /\ MatchesExpansion(old, new)

====
